---- MODULE Spec2Model ----
(***************************************************************************)
(* Job/Shift lifecycle of the movers workflow platform: the job routes     *)
(* (assign, status, apply) and the shift routes (create, update, delete,   *)
(* complete) acting on one shared database.  Every await of a handler is a *)
(* point where another request may run, so a handler is a sequence of      *)
(* steps of a request slot; consecutive reads of rows no route changes     *)
(* (users, a job's date) are taken in one step.                             *)
(***************************************************************************)
EXTENDS Integers, FiniteSets, TLC

\* ----------------------------------------------------------------- bounds
MaxTime == 4
MaxShifts == 3
MaxProcs == 2
MaxOps == 2
MaxAssign == 2

\* ------------------------------------------------------------- data model
Jobs == {"j1", "j2"}
Users == {"e1", "e2", "e3", "boss", "admin"}
Employees == {"e1", "e2", "e3"}
Procs == 1..MaxProcs
Times == 1..MaxTime

JobStatuses == {"AVAILABLE", "ASSIGNED", "IN_PROGRESS", "COMPLETED", "CANCELLED"}
ShiftStatuses == {"SCHEDULED", "ACTIVE", "COMPLETED", "CANCELLED"}

\* User.role and User.verified: two verified employees, one unverified
\* employee, a verified employer, an admin.
Role(u) ==
  CASE u = "boss" -> "EMPLOYER"
    [] u = "admin" -> "ADMIN"
    [] OTHER -> "EMPLOYEE"

Verified(u) == u # "e3"

\* Job.numberOfMovers, at least 1 and fixed when the job is created.
NumberOfMovers(j) == IF j = "j1" THEN 2 ELSE 1

\* Job.date, fixed when the job is created.
JobDate(j) == IF j = "j1" THEN 2 ELSE 3

\* last: the operation, the caller and the outcome of the request that
\* returned last.
\* budget: the requests that may still be received.
VARIABLES jobStatus, jobEmployees, shifts, nextShiftId, req, budget, last

vars == <<jobStatus, jobEmployees, shifts, nextShiftId, req, budget, last>>
db == <<jobStatus, jobEmployees, shifts>>

\* A request slot with no request in it.
Idle ==
  [pc |-> "idle", op |-> "none", user |-> "none", employee |-> "none",
   job |-> "none", shift |-> 0,
   startTime |-> 0, endTime |-> 0, status |-> "none", deleted |-> {},
   snap |-> {}, conc |-> FALSE]

\* ---------------------------------------------------------------- helpers
Free(p) == req[p].pc = "idle"
InFlight(p) == ~Free(p)

ShiftIds == {s.id : s \in shifts}
ShiftById(i) == CHOOSE s \in shifts : s.id = i
ShiftsOfJob(j) == {s \in shifts : s.jobId = j}

\* Rows a reset transaction has deleted and not yet committed: a write to one
\* of them waits for the commit and then finds no row.
PendingDelete == UNION {req[p].deleted : p \in Procs}

\* Requests that have yet to insert a shift: the ids left must cover them.
Creators == {p \in Procs : req[p].pc \in {"apply_update", "apply_shift", "create_write"}}
CanCreate == nextShiftId + Cardinality(Creators) <= MaxShifts

\* A request is received, if the budget of requests allows one more.
Received ==
  /\ budget > 0
  /\ budget' = budget - 1

Returned(o, u, res) == last' = [op |-> o, user |-> u, result |-> res]

\* The request is answered by the step that received it.
Answer(o, u, res) ==
  /\ Returned(o, u, res)
  /\ req' = [q \in Procs |-> IF InFlight(q) THEN [req[q] EXCEPT !.conc = TRUE] ELSE req[q]]

\* The request stays in slot p (the lowest free one) at its next await; it
\* overlaps in time every request in flight.
Begin(p, r) ==
  /\ Free(p)
  /\ \A q \in Procs : q < p => InFlight(q)
  /\ UNCHANGED last
  /\ req' = [q \in Procs |->
               IF q = p THEN [r EXCEPT !.conc = \E o \in Procs : InFlight(o)]
               ELSE IF InFlight(q) THEN [req[q] EXCEPT !.conc = TRUE]
               ELSE req[q]]

Call(o, u, j) == [Idle EXCEPT !.op = o, !.user = u, !.job = j]

\* The request in slot p returns.
Finish(p, res) ==
  /\ Returned(req[p].op, req[p].user, res)
  /\ req' = [req EXCEPT ![p] = Idle]
  /\ UNCHANGED budget

Goto(p, l) ==
  /\ req' = [req EXCEPT ![p].pc = l]
  /\ UNCHANGED <<budget, last>>

\* ------------------------------------------------------------- middleware
\* The subjects of the tokens requests carry: the users, and one whose row
\* is gone from the database.
Callers == Users \cup {"ghost"}

\* protect without its step 4, the check of an employee's verification.
ProtectUserExists(u) == u \in Users

\* protect: the token's user exists and an EMPLOYEE is verified.
Protect(u) == u \in Users /\ ~(Role(u) = "EMPLOYEE" /\ ~Verified(u))

\* The error protect passes to next(): 401 for a missing user, 403 for an
\* unverified employee.
ProtectError(u) == IF u \notin Users THEN "UserNotFound" ELSE "AccountNotVerified"

\* restrictTo('EMPLOYER', 'ADMIN')
RestrictTo(u) == Role(u) \in {"EMPLOYER", "ADMIN"}

\* ------------------------------------------------------------ job routes
\* POST /:id/assign: one job.update, no check of the job's status.
AssignCheck(u) ==
  IF ~Protect(u) THEN ProtectError(u)
  ELSE IF ~RestrictTo(u) THEN "Forbidden"
  ELSE "ok"

\* POST /:id/assign refusing to take the job's employee set beyond
\* numberOfMovers.
AssignEmployeesCapped(u, j, ids) ==
  /\ Received
  /\ UNCHANGED <<shifts, nextShiftId>>
  /\ IF AssignCheck(u) # "ok"
       THEN Answer("assign", u, AssignCheck(u)) /\ UNCHANGED <<jobStatus, jobEmployees>>
       ELSE IF Cardinality(jobEmployees[j] \cup ids) > NumberOfMovers(j)
         THEN Answer("assign", u, "TooManyMovers") /\ UNCHANGED <<jobStatus, jobEmployees>>
         ELSE /\ Answer("assign", u, "ok")
              /\ jobEmployees' = [jobEmployees EXCEPT ![j] = @ \cup ids]
              /\ jobStatus' = [jobStatus EXCEPT ![j] = "ASSIGNED"]

AssignEmployees(u, j, ids) ==
  /\ Received
  /\ Answer("assign", u, AssignCheck(u))
  /\ UNCHANGED <<shifts, nextShiftId>>
  /\ IF AssignCheck(u) = "ok"
       THEN /\ jobEmployees' = [jobEmployees EXCEPT ![j] = @ \cup ids]
            /\ jobStatus' = [jobStatus EXCEPT ![j] = "ASSIGNED"]
       ELSE UNCHANGED <<jobStatus, jobEmployees>>

\* POST /:id/status.  Only the status list and the role are checked; the
\* transaction is deleteMany (when resetting with removeShifts) and job.update.
StatusCheck(u, st) ==
  IF ~Protect(u) THEN ProtectError(u)
  ELSE IF st \notin JobStatuses THEN "InvalidStatus"
  ELSE IF st \in {"AVAILABLE", "ASSIGNED"} /\ Role(u) # "EMPLOYER" THEN "Forbidden"
  ELSE "ok"

\* POST /:id/status taking removeShifts as given whenever the status is
\* AVAILABLE: the job's shifts are deleted and its employee set is emptied.
UpdateJobStatusRemoving(u, j, st) ==
  /\ Received
  /\ Answer("status", u, StatusCheck(u, st))
  /\ UNCHANGED nextShiftId
  /\ IF StatusCheck(u, st) = "ok"
       THEN /\ jobStatus' = [jobStatus EXCEPT ![j] = st]
            /\ shifts' = IF st = "AVAILABLE" THEN shifts \ ShiftsOfJob(j) ELSE shifts
            /\ jobEmployees' = IF st = "AVAILABLE" THEN [jobEmployees EXCEPT ![j] = {}]
                                                   ELSE jobEmployees
       ELSE UNCHANGED <<jobStatus, shifts, jobEmployees>>

\* Without removeShifts the transaction is the one job.update.
UpdateJobStatus(u, j, st) ==
  /\ Received
  /\ Answer("status", u, StatusCheck(u, st))
  /\ UNCHANGED <<shifts, nextShiftId, jobEmployees>>
  /\ IF StatusCheck(u, st) = "ok"
       THEN jobStatus' = [jobStatus EXCEPT ![j] = st]
       ELSE UNCHANGED jobStatus

\* status = AVAILABLE with removeShifts: deleteMany runs in the transaction,
\* on the job's shifts of that moment; nothing is visible before the commit.
SetJobAvailable(p, u, j) ==
  /\ Received
  /\ StatusCheck(u, "AVAILABLE") = "ok"
  /\ Begin(p, [Call("reset", u, j) EXCEPT !.pc = "status_commit",
                                           !.status = "AVAILABLE",
                                           !.deleted = {s.id : s \in ShiftsOfJob(j)}])
  /\ UNCHANGED <<db, nextShiftId>>

\* The reset transaction commits: the deleted rows go, the job is AVAILABLE
\* and its employee set is empty.
StatusCommit(p) ==
  /\ req[p].pc = "status_commit"
  /\ shifts' = {s \in shifts : s.id \notin req[p].deleted}
  /\ jobStatus' = [jobStatus EXCEPT ![req[p].job] = "AVAILABLE"]
  /\ jobEmployees' = [jobEmployees EXCEPT ![req[p].job] = {}]
  /\ Finish(p, "ok")
  /\ UNCHANGED nextShiftId

\* The checks of POST /:id/apply without the check of the job's status.
ApplyCheckAnyStatus(u, j) ==
  IF ~Protect(u) THEN ProtectError(u)
  ELSE IF u \in jobEmployees[j] THEN "AlreadyAssigned"
  ELSE IF Role(u) = "EMPLOYEE" /\ ~Verified(u) THEN "NotVerified"
  ELSE "ok"

\* The checks of POST /:id/apply with the membership check put before the
\* status check.
ApplyCheckMemberFirst(u, j) ==
  IF ~Protect(u) THEN ProtectError(u)
  ELSE IF u \in jobEmployees[j] THEN "AlreadyAssigned"
  ELSE IF jobStatus[j] # "AVAILABLE" THEN "JobNotAvailable"
  ELSE IF Role(u) = "EMPLOYEE" /\ ~Verified(u) THEN "NotVerified"
  ELSE "ok"

\* POST /:id/apply: read and check the job, then job.update, then (outside
\* any transaction) shift.create with startTime = endTime = job.date.
ApplyCheck(u, j) ==
  IF ~Protect(u) THEN ProtectError(u)
  ELSE IF jobStatus[j] # "AVAILABLE" THEN "JobNotAvailable"
  ELSE IF u \in jobEmployees[j] THEN "AlreadyAssigned"
  ELSE IF Role(u) = "EMPLOYEE" /\ ~Verified(u) THEN "NotVerified"
  ELSE "ok"

ApplyRejected(u, j) ==
  /\ Received
  /\ ApplyCheck(u, j) # "ok"
  /\ Answer("apply", u, ApplyCheck(u, j))
  /\ UNCHANGED <<db, nextShiftId>>

ApplyForJob(p, u, j) ==
  /\ Received
  /\ ApplyCheck(u, j) = "ok"
  /\ CanCreate
  /\ Begin(p, [Call("apply", u, j) EXCEPT !.pc = "apply_update"])
  /\ UNCHANGED <<db, nextShiftId>>

ApplyJobUpdate(p) ==
  /\ req[p].pc = "apply_update"
  /\ jobEmployees' = [jobEmployees EXCEPT ![req[p].job] = @ \cup {req[p].user}]
  /\ jobStatus' = [jobStatus EXCEPT ![req[p].job] = "ASSIGNED"]
  /\ Goto(p, "apply_shift")
  /\ UNCHANGED <<shifts, nextShiftId>>

ApplyShift(u, j, i) ==
  [id |-> i, employeeId |-> u, jobId |-> j, startTime |-> JobDate(j),
   endTime |-> JobDate(j), status |-> "SCHEDULED", payload |-> 0]

ApplyShiftCreate(p) ==
  /\ req[p].pc = "apply_shift"
  /\ shifts' = shifts \cup {ApplyShift(req[p].user, req[p].job, nextShiftId)}
  /\ nextShiftId' = nextShiftId + 1
  /\ Finish(p, "ok")
  /\ UNCHANGED <<jobStatus, jobEmployees>>

\* shift.create throws (the store fails): the job.update before it stays.
ApplyShiftCreateFails(p) ==
  /\ req[p].pc = "apply_shift"
  /\ Finish(p, "StorageError")
  /\ UNCHANGED <<db, nextShiftId>>

\* ---------------------------------------------------------- shift routes
\* The where clause of the overlap query of POST /: the employee's shifts that
\* cover the new start, or cover the new end.
OverlappingShifts(e, st, en) ==
  {s \in shifts :
     /\ s.employeeId = e
     /\ \/ (s.startTime <= st /\ s.endTime > st)
        \/ (s.startTime < en /\ s.endTime >= en)}

\* POST / (employer only): the checks, in the order of the handler.
CreateCheck(u, e, st, en) ==
  IF ~Protect(u) THEN ProtectError(u)
  ELSE IF ~RestrictTo(u) THEN "Forbidden"
  ELSE IF ~Verified(e) THEN "EmployeeNotVerified"
  ELSE IF st >= en THEN "BadTimes"
  ELSE IF OverlappingShifts(e, st, en) # {} THEN "Overlap"
  ELSE "ok"

CreateShiftRejected(u, e, st, en) ==
  /\ Received
  /\ CreateCheck(u, e, st, en) # "ok"
  /\ Answer("create", u, CreateCheck(u, e, st, en))
  /\ UNCHANGED <<db, nextShiftId>>

CreateShift(p, u, e, j, st, en) ==
  /\ Received
  /\ CreateCheck(u, e, st, en) = "ok"
  /\ CanCreate
  /\ Begin(p, [Call("create", u, j) EXCEPT !.pc = "create_write", !.employee = e,
                                          !.startTime = st, !.endTime = en])
  /\ UNCHANGED <<db, nextShiftId>>

NewShift(e, j, st, en, i) ==
  [id |-> i, employeeId |-> e, jobId |-> j, startTime |-> st, endTime |-> en,
   status |-> "SCHEDULED", payload |-> 0]

CreateShiftWrite(p) ==
  /\ req[p].pc = "create_write"
  /\ shifts' = shifts \cup {NewShift(req[p].employee, req[p].job, req[p].startTime,
                                      req[p].endTime, nextShiftId)}
  /\ nextShiftId' = nextShiftId + 1
  /\ Finish(p, "ok")
  /\ UNCHANGED <<jobStatus, jobEmployees>>

\* PUT /:id.  data holds the keys of the body: status ("none": absent),
\* startTime and endTime (0: absent).
OnlyStatus(data) == data.startTime = 0 /\ data.endTime = 0

UpdateCheck(u, i, data) ==
  IF ~Protect(u) THEN ProtectError(u)
  ELSE IF i \notin ShiftIds THEN "ShiftNotFound"
  ELSE IF Role(u) = "EMPLOYEE" /\ ShiftById(i).employeeId # u THEN "Forbidden"
  ELSE IF Role(u) = "EMPLOYER" /\ u \notin jobEmployees[ShiftById(i).jobId] THEN "Forbidden"
  ELSE IF Role(u) \in {"EMPLOYEE", "EMPLOYER"} /\ ~OnlyStatus(data) THEN "Forbidden"
  ELSE "ok"

UpdateShiftRejected(u, i, data) ==
  /\ Received
  /\ UpdateCheck(u, i, data) # "ok"
  /\ Answer("update", u, UpdateCheck(u, i, data))
  /\ UNCHANGED <<db, nextShiftId>>

UpdateShift(p, u, i, data) ==
  /\ Received
  /\ UpdateCheck(u, i, data) = "ok"
  /\ Begin(p, [Call("update", u, ShiftById(i).jobId) EXCEPT
                 !.pc = "update_write", !.shift = i, !.status = data.status,
                 !.startTime = data.startTime, !.endTime = data.endTime])
  /\ UNCHANGED <<db, nextShiftId>>

\* shift.update({ where: { id }, data }): the keys present replace the row's.
Updated(s, r) ==
  [s EXCEPT !.status = IF r.status = "none" THEN @ ELSE r.status,
            !.startTime = IF r.startTime = 0 THEN @ ELSE r.startTime,
            !.endTime = IF r.endTime = 0 THEN @ ELSE r.endTime]

UpdateShiftWrite(p) ==
  /\ req[p].pc = "update_write"
  /\ req[p].shift \notin PendingDelete
  /\ UNCHANGED <<jobStatus, jobEmployees, nextShiftId>>
  /\ IF req[p].shift \in ShiftIds
       THEN /\ shifts' = (shifts \ {ShiftById(req[p].shift)})
                           \cup {Updated(ShiftById(req[p].shift), req[p])}
            /\ Finish(p, "ok")
       ELSE /\ UNCHANGED shifts
            /\ Finish(p, "StorageError")

\* DELETE /:id (employer only).
DeleteCheck(u, i) ==
  IF ~Protect(u) THEN ProtectError(u)
  ELSE IF ~RestrictTo(u) THEN "Forbidden"
  ELSE IF i \notin ShiftIds THEN "StorageError"
  ELSE "ok"

DeleteShift(u, i) ==
  /\ Received
  /\ i \notin PendingDelete
  /\ Answer("delete", u, DeleteCheck(u, i))
  /\ UNCHANGED <<jobStatus, jobEmployees, nextShiftId>>
  /\ IF DeleteCheck(u, i) = "ok"
       THEN shifts' = shifts \ {ShiftById(i)}
       ELSE UNCHANGED shifts

\* The checks of POST /:id/complete without the check of the shift's status.
CompleteCheckAnyStatus(u, i) ==
  IF ~Protect(u) THEN ProtectError(u)
  ELSE IF i \notin ShiftIds THEN "ShiftNotFound"
  ELSE IF Role(u) = "EMPLOYEE" /\ ShiftById(i).employeeId # u THEN "Forbidden"
  ELSE IF Role(u) = "EMPLOYER" /\ u \notin jobEmployees[ShiftById(i).jobId] THEN "Forbidden"
  ELSE "ok"

\* POST /:id/complete.  The shift is read with its job's shifts and employees;
\* the transaction that follows decides on that read.
CompleteCheck(u, i) ==
  IF ~Protect(u) THEN ProtectError(u)
  ELSE IF i \notin ShiftIds THEN "ShiftNotFound"
  ELSE IF Role(u) = "EMPLOYEE" /\ ShiftById(i).employeeId # u THEN "Forbidden"
  ELSE IF Role(u) = "EMPLOYER" /\ u \notin jobEmployees[ShiftById(i).jobId] THEN "Forbidden"
  ELSE IF ShiftById(i).status # "ACTIVE" THEN "NotActive"
  ELSE "ok"

CompleteShiftRejected(u, i) ==
  /\ Received
  /\ CompleteCheck(u, i) # "ok"
  /\ Answer("complete", u, CompleteCheck(u, i))
  /\ UNCHANGED <<db, nextShiftId>>

\* shift.job.shifts as read: the id and the status of each shift of the job.
JobShiftsRead(j) == {[id |-> s.id, status |-> s.status] : s \in ShiftsOfJob(j)}

CompleteShift(p, u, i, en) ==
  /\ Received
  /\ CompleteCheck(u, i) = "ok"
  /\ Begin(p, [Call("complete", u, ShiftById(i).jobId) EXCEPT
                 !.pc = "complete_tx", !.shift = i, !.endTime = en,
                 !.snap = JobShiftsRead(ShiftById(i).jobId)])
  /\ UNCHANGED <<db, nextShiftId>>

\* shift.job.shifts.every((s) => s.id === id || s.status === 'COMPLETED')
AllShiftsCompleted(snap, i) ==
  \A s \in snap : s.id = i \/ s.status = "COMPLETED"

\* The completion payload is tagged with the slot of the request writing it.
Completed(s, en, tag) ==
  [s EXCEPT !.endTime = en, !.status = "COMPLETED", !.payload = tag]

\* The transaction: shift.update, then job.update if the shifts read were all
\* completed.  A missing row makes shift.update throw and nothing is written.
CompleteShiftTx(p) ==
  /\ req[p].pc = "complete_tx"
  /\ req[p].shift \notin PendingDelete
  /\ UNCHANGED <<jobEmployees, nextShiftId>>
  /\ IF req[p].shift \in ShiftIds
       THEN /\ shifts' = (shifts \ {ShiftById(req[p].shift)})
                           \cup {Completed(ShiftById(req[p].shift), req[p].endTime, p)}
            /\ jobStatus' = IF AllShiftsCompleted(req[p].snap, req[p].shift)
                              THEN [jobStatus EXCEPT ![req[p].job] = "COMPLETED"]
                              ELSE jobStatus
            /\ Finish(p, "ok")
       ELSE /\ UNCHANGED <<shifts, jobStatus>>
            /\ Finish(p, "StorageError")

\* The bodies PUT /:id is tried with: one key each.
UpdateBodies ==
  {[status |-> s, startTime |-> 0, endTime |-> 0] : s \in ShiftStatuses}
    \cup {[status |-> "none", startTime |-> a, endTime |-> 0] : a \in Times}
    \cup {[status |-> "none", startTime |-> 0, endTime |-> b] : b \in Times}

\* The statuses POST /:id/status is tried with: the five, and one that is none.
StatusInputs == JobStatuses \cup {"PENDING"}

\* The employeeIds POST /:id/assign is tried with.
AssignSets == {ids \in SUBSET (Users \ {"admin"}) : Cardinality(ids) <= MaxAssign}

\* ---------------------------------------------------------- specification
NoRequest == [op |-> "none", user |-> "none", result |-> "none"]

\* The database with the jobs just created (POST /: AVAILABLE, no employees).
InitFresh ==
  /\ jobStatus = [j \in Jobs |-> "AVAILABLE"]
  /\ jobEmployees = [j \in Jobs |-> {}]
  /\ shifts = {}
  /\ nextShiftId = 1

\* A shift of the i-th employee that is being worked: created by POST /
\* (SCHEDULED) and set ACTIVE by PUT /:id.
ActiveShift(i, j) ==
  [id |-> i, employeeId |-> IF i % 2 = 1 THEN "e1" ELSE "e2", jobId |-> j,
   startTime |-> (i + 1) \div 2, endTime |-> (i + 1) \div 2 + 1,
   status |-> "ACTIVE", payload |-> 0]

\* The database with job j1 under way: its crew assigned (POST /:id/assign),
\* two shifts created and started, the job set IN_PROGRESS (POST /:id/status).
InitRunning ==
  /\ jobStatus = [j \in Jobs |-> IF j = "j1" THEN "IN_PROGRESS" ELSE "AVAILABLE"]
  /\ jobEmployees = [j \in Jobs |-> IF j = "j1" THEN {"e1", "e2"} ELSE {}]
  /\ shifts = {ActiveShift(i, "j1") : i \in 1..2}
  /\ nextShiftId = 3

NoneInFlight ==
  /\ req = [p \in Procs |-> Idle]
  /\ last = NoRequest

Init ==
  /\ InitFresh \/ InitRunning
  /\ NoneInFlight
  /\ budget = MaxOps

Next ==
  \/ \E u \in Callers, j \in Jobs, ids \in AssignSets : AssignEmployees(u, j, ids)
  \/ \E u \in Callers, j \in Jobs, st \in StatusInputs : UpdateJobStatus(u, j, st)
  \/ \E p \in Procs, u \in Callers, j \in Jobs : SetJobAvailable(p, u, j)
  \/ \E p \in Procs : StatusCommit(p)
  \/ \E u \in Callers, j \in Jobs : ApplyRejected(u, j)
  \/ \E p \in Procs, u \in Callers, j \in Jobs : ApplyForJob(p, u, j)
  \/ \E p \in Procs : ApplyJobUpdate(p)
  \/ \E p \in Procs : ApplyShiftCreate(p)
  \/ \E p \in Procs : ApplyShiftCreateFails(p)
  \/ \E u \in Callers, e \in Employees, st \in Times, en \in Times :
       CreateShiftRejected(u, e, st, en)
  \/ \E p \in Procs, u \in Callers, e \in Employees, j \in Jobs, st \in Times, en \in Times :
       CreateShift(p, u, e, j, st, en)
  \/ \E p \in Procs : CreateShiftWrite(p)
  \/ \E u \in Callers, i \in 1..MaxShifts, data \in UpdateBodies :
       UpdateShiftRejected(u, i, data)
  \/ \E p \in Procs, u \in Callers, i \in 1..MaxShifts, data \in UpdateBodies :
       UpdateShift(p, u, i, data)
  \/ \E p \in Procs : UpdateShiftWrite(p)
  \/ \E u \in Callers, i \in 1..MaxShifts : DeleteShift(u, i)
  \/ \E u \in Callers, i \in 1..MaxShifts : CompleteShiftRejected(u, i)
  \/ \E p \in Procs, u \in Callers, i \in 1..MaxShifts, en \in Times :
       CompleteShift(p, u, i, en)
  \/ \E p \in Procs : CompleteShiftTx(p)

Spec == Init /\ [][Next]_vars

\* ------------------------------------------------- apply requests alone
\* Requests to POST /:id/apply on the fresh database, the store not failing.
InitApply ==
  /\ InitFresh
  /\ NoneInFlight
  /\ budget = MaxOps

NextApply ==
  \/ \E u \in Callers, j \in Jobs : ApplyRejected(u, j)
  \/ \E p \in Procs, u \in Callers, j \in Jobs : ApplyForJob(p, u, j)
  \/ \E p \in Procs : ApplyJobUpdate(p)
  \/ \E p \in Procs : ApplyShiftCreate(p)

SpecApply == InitApply /\ [][NextApply]_vars

\* ------------------------------------------ apply and reset requests
\* Requests to POST /:id/apply and resets (POST /:id/status with status
\* AVAILABLE and removeShifts) on the fresh database.
NextReset ==
  \/ NextApply
  \/ \E p \in Procs, u \in Callers, j \in Jobs : SetJobAvailable(p, u, j)
  \/ \E p \in Procs : StatusCommit(p)

SpecReset == InitApply /\ [][NextReset]_vars

\* ------------------------------------------------ create requests alone
\* Requests to POST / (shifts) on the fresh database.
NextCreate ==
  \/ \E u \in Callers, e \in Employees, st \in Times, en \in Times :
       CreateShiftRejected(u, e, st, en)
  \/ \E p \in Procs, u \in Callers, e \in Employees, j \in Jobs, st \in Times, en \in Times :
       CreateShift(p, u, e, j, st, en)
  \/ \E p \in Procs : CreateShiftWrite(p)

SpecCreate == InitApply /\ [][NextCreate]_vars

\* ------------------------------------------- shifts of a job being worked
\* Job j1 with one to MaxShifts shifts, all ACTIVE (created by POST / and
\* started by PUT /:id), in any status POST /:id/status can have given it
\* meanwhile, the employer assigned to it or not; one request per shift and
\* MaxOps - 1 more may be received.
InitCascade ==
  /\ \E k \in 1..MaxShifts, st \in JobStatuses, crew \in {{"e1", "e2"}, {"e1", "e2", "boss"}} :
       /\ shifts = {ActiveShift(i, "j1") : i \in 1..k}
       /\ jobStatus = [j \in Jobs |-> IF j = "j1" THEN st ELSE "AVAILABLE"]
       /\ jobEmployees = [j \in Jobs |-> IF j = "j1" THEN crew ELSE {}]
       /\ nextShiftId = k + 1
       /\ budget = k + MaxOps - 1
  /\ NoneInFlight

\* The end times the completions of these requests report.
EndTimes == {MaxTime}

\* Requests to POST /:id/complete alone, overlapping in time or not.
NextCascade ==
  \/ \E u \in Callers, i \in 1..MaxShifts : CompleteShiftRejected(u, i)
  \/ \E p \in Procs, u \in Callers, i \in 1..MaxShifts, en \in EndTimes :
       CompleteShift(p, u, i, en)
  \/ \E p \in Procs : CompleteShiftTx(p)

SpecCascade == InitCascade /\ [][NextCascade]_vars

\* The same requests one after another: none is received while one is in
\* flight.
AllReturned == \A p \in Procs : Free(p)

NextCascadeSeq ==
  \/ \E u \in Callers, i \in 1..MaxShifts : AllReturned /\ CompleteShiftRejected(u, i)
  \/ \E p \in Procs, u \in Callers, i \in 1..MaxShifts, en \in EndTimes :
       AllReturned /\ CompleteShift(p, u, i, en)
  \/ \E p \in Procs : CompleteShiftTx(p)

SpecCascadeSeq == InitCascade /\ [][NextCascadeSeq]_vars

\* ------------------------------- completions and cancellations of shifts
\* The body of a PUT /:id that cancels a shift.
CancelBodies == {[status |-> "CANCELLED", startTime |-> 0, endTime |-> 0]}

\* The job whose shifts are all ACTIVE, set IN_PROGRESS.
InitCancel ==
  /\ InitCascade
  /\ jobStatus["j1"] = "IN_PROGRESS"

\* Requests to POST /:id/complete and cancellations by PUT /:id, overlapping
\* in time or not.
NextCancel ==
  \/ NextCascade
  \/ \E u \in Callers, i \in 1..MaxShifts, data \in CancelBodies :
       UpdateShiftRejected(u, i, data)
  \/ \E p \in Procs, u \in Callers, i \in 1..MaxShifts, data \in CancelBodies :
       UpdateShift(p, u, i, data)
  \/ \E p \in Procs : UpdateShiftWrite(p)

SpecCancel == InitCancel /\ [][NextCancel]_vars

\* ------------------------------------------------ the legal status graphs
\* validTransitions of the job routes' tests, and the reset ASSIGNED ->
\* AVAILABLE of the reset workflow.
LegalJobEdge(from, to) ==
  \/ from = "AVAILABLE" /\ to \in {"ASSIGNED", "CANCELLED"}
  \/ from = "ASSIGNED" /\ to \in {"IN_PROGRESS", "CANCELLED", "AVAILABLE"}
  \/ from = "IN_PROGRESS" /\ to \in {"COMPLETED", "CANCELLED"}

LegalShiftEdge(from, to) ==
  \/ from = "SCHEDULED" /\ to \in {"ACTIVE", "CANCELLED"}
  \/ from = "ACTIVE" /\ to \in {"COMPLETED", "CANCELLED"}

\* Two shifts whose half-open intervals [startTime, endTime) share an instant.
Overlap(a, b) ==
  LET lo == IF a.startTime >= b.startTime THEN a.startTime ELSE b.startTime
      hi == IF a.endTime <= b.endTime THEN a.endTime ELSE b.endTime
  IN lo < hi

AllCompleted(j) == \A s \in ShiftsOfJob(j) : s.status = "COMPLETED"

\* ------------------------------------------------------------------ claims
\* C1: updateJobStatus(jobId, target) succeeds only when (current status,
\* target) is an edge of the legal Job graph; for every other pair the request
\* is rejected with an error and the Job's status is unchanged.
C1_StatusOnlyAlongLegalEdges ==
  [][/\ \A u \in Users, j \in Jobs, st \in StatusInputs :
          (UpdateJobStatus(u, j, st) /\ ~LegalJobEdge(jobStatus[j], st))
            => (last'.result # "ok" /\ jobStatus'[j] = jobStatus[j])
     /\ \A p \in Procs :
          (StatusCommit(p) /\ ~LegalJobEdge(jobStatus[req[p].job], "AVAILABLE"))
            => (last'.result # "ok" /\ jobStatus' = jobStatus)]_vars

\* C2: two applyForJob calls by different employees running concurrently
\* against the same AVAILABLE Job: exactly one succeeds, leaving the Job
\* ASSIGNED with one new Shift and one member; the other is rejected and writes
\* nothing.  On the fresh database with apply requests alone: once the calls
\* have returned, a job is ASSIGNED with one member and one shift, or untouched.
C2_ExactlyOneApplySucceeds ==
  AllReturned =>
    \A j \in Jobs :
      IF jobStatus[j] = "ASSIGNED"
        THEN Cardinality(jobEmployees[j]) = 1 /\ Cardinality(ShiftsOfJob(j)) = 1
        ELSE jobStatus[j] = "AVAILABLE" /\ jobEmployees[j] = {} /\ ShiftsOfJob(j) = {}

\* C3: when the last ACTIVE shifts of a Job are completed by completeShift
\* calls that run concurrently, the Job is COMPLETED once the calls have
\* returned.
C3_ConcurrentCascadeCompletesJob ==
  AllReturned =>
    \A j \in Jobs : (ShiftsOfJob(j) # {} /\ AllCompleted(j)) => jobStatus[j] = "COMPLETED"

\* C7: for a Job whose shifts are all ACTIVE, completing them one after
\* another yields the same final state for every order: the Job is COMPLETED
\* at the last call and is not COMPLETED after any earlier call.
C7_SequentialCascadeOrderFree ==
  \A j \in Jobs :
    (\E s \in ShiftsOfJob(j) : s.status = "COMPLETED") =>
      (jobStatus[j] = "COMPLETED" <=> AllCompleted(j))

\* C4: in every reachable state no two non-cancelled Shifts of one employee
\* have overlapping half-open intervals [startTime, endTime).
C4_NoOverlappingShifts ==
  \A a \in shifts, b \in shifts :
    (a.id # b.id /\ a.employeeId = b.employeeId
       /\ a.status # "CANCELLED" /\ b.status # "CANCELLED") => ~Overlap(a, b)

\* C5: in every reachable state, a Job that has at least one Shift and whose
\* Shifts are all COMPLETED is COMPLETED.
C5_AllShiftsCompletedJobCompleted ==
  \A j \in Jobs :
    (ShiftsOfJob(j) # {} /\ AllCompleted(j)) => jobStatus[j] = "COMPLETED"

\* C6: in every reachable state, every Shift of a COMPLETED Job is COMPLETED.
C6_CompletedJobAllShiftsCompleted ==
  \A j \in Jobs : jobStatus[j] = "COMPLETED" => AllCompleted(j)

\* C8: applyForJob is all-or-nothing: no state holds an apply's membership and
\* ASSIGNED status without its Shift, and an apply that fails at the Shift
\* write leaves the Job's status and employee set as before the call.
C8_ApplyAllOrNothing ==
  [][/\ \A p \in Procs :
          req'[p].pc = "apply_shift" =>
            \E s \in shifts' : s.employeeId = req'[p].user /\ s.jobId = req'[p].job
     /\ \A p \in Procs :
          ApplyShiftCreateFails(p) =>
            /\ req[p].user \notin jobEmployees'[req[p].job]
            /\ jobStatus'[req[p].job] = "AVAILABLE"]_vars

\* C9: once a Job is COMPLETED or CANCELLED, no applyForJob, assignEmployees,
\* completeShift or updateJobStatus to a status other than AVAILABLE changes
\* its status.
C9_TerminalJobStatusStays ==
  [][\A j \in Jobs :
       jobStatus[j] \in {"COMPLETED", "CANCELLED"} =>
         jobStatus'[j] \in {jobStatus[j], "AVAILABLE"}]_vars

\* C10: updateShiftStatus(shiftId, target) succeeds only when (current status,
\* target) is an edge of the legal Shift graph; for every other pair it fails
\* and the Shift's status is unchanged.
C10_ShiftStatusOnlyAlongLegalEdges ==
  [][\A p \in Procs :
       (/\ UpdateShiftWrite(p)
        /\ req[p].status # "none"
        /\ req[p].shift \in ShiftIds
        /\ ~LegalShiftEdge(ShiftById(req[p].shift).status, req[p].status))
         => (last'.result # "ok" /\ shifts' = shifts)]_vars

\* C11: in every reachable state every Shift has startTime < endTime strictly,
\* the Shift that applyForJob creates from the Job's date included.
C11_ShiftTimesStrict ==
  \A s \in shifts : s.startTime < s.endTime

\* C12: no operation adds an employee whose verified flag is false to a Job's
\* employee set or creates a Shift for such an employee.
C12_OnlyVerifiedScheduled ==
  /\ \A j \in Jobs : \A e \in jobEmployees[j] : Verified(e)
  /\ \A s \in shifts : Verified(s.employeeId)

\* C13: assignEmployees on a Job whose status is not AVAILABLE fails with an
\* error and leaves the Job's status and employee set unchanged.
C13_AssignOnlyWhenAvailable ==
  [][\A u \in Callers, j \in Jobs, ids \in AssignSets :
       (AssignEmployees(u, j, ids) /\ jobStatus[j] # "AVAILABLE")
         => /\ last'.result # "ok"
            /\ jobStatus'[j] = jobStatus[j]
            /\ jobEmployees'[j] = jobEmployees[j]]_vars

\* A shift as POST /:id/apply creates it for employee u on job j.
AppliedShift(s, u, j) ==
  /\ s.employeeId = u
  /\ s.jobId = j
  /\ s.startTime = JobDate(j)
  /\ s.endTime = JobDate(j)
  /\ s.status = "SCHEDULED"

\* C14 (as stated): after applyForJob(J, E) has succeeded, a second
\* applyForJob(J, E) fails with AlreadyAssigned.
C14_SecondApplyAlreadyAssigned ==
  [][\A u \in Callers, j \in Jobs :
       (/\ ApplyRejected(u, j)
        /\ u \in jobEmployees[j]
        /\ \E s \in shifts : AppliedShift(s, u, j))
         => last'.result = "AlreadyAssigned"]_vars

\* C14 (amended): an applyForJob(J, E) by an employee already in J's employee
\* set never succeeds and changes nothing; it fails with the status error
\* (job no longer available) whenever J is not AVAILABLE, as it is after E's
\* first apply, and with AlreadyAssigned only when J is AVAILABLE.
C14_SecondApplyRejected ==
  [][/\ \A u \in Callers, j \in Jobs :
          (ApplyRejected(u, j) /\ Protect(u) /\ u \in jobEmployees[j])
            => /\ last'.result = IF jobStatus[j] = "AVAILABLE" THEN "AlreadyAssigned"
                                                              ELSE "JobNotAvailable"
               /\ UNCHANGED <<db, nextShiftId>>
     /\ \A p \in Procs, u \in Callers, j \in Jobs :
          ApplyForJob(p, u, j) => u \notin jobEmployees[j]]_vars

\* The second apply of an employee has just been rejected: the employee is in
\* the job's employee set with the shift the first apply created.
C14_SecondApplyAnswered ==
  /\ last.op = "apply"
  /\ last.result = "JobNotAvailable"
  /\ budget = 0
  /\ \E j \in Jobs :
       /\ last.user \in jobEmployees[j]
       /\ jobStatus[j] = "ASSIGNED"
       /\ \E s \in shifts : AppliedShift(s, last.user, j)

\* The caller may complete shift i: the shift's employee, an employer
\* assigned to its job, or an admin.
MayComplete(u, i) ==
  /\ Protect(u)
  /\ Role(u) = "EMPLOYEE" => ShiftById(i).employeeId = u
  /\ Role(u) = "EMPLOYER" => u \in jobEmployees[ShiftById(i).jobId]

\* C15: completeShift on a Shift whose status is not ACTIVE (in particular
\* one already COMPLETED) fails, with the status error when the caller may
\* complete the shift, and changes neither the Shift, its completion payload,
\* nor the parent Job's status; no such request gets as far as the
\* transaction.
C15_CompleteOnlyActive ==
  [][/\ \A u \in Callers, i \in 1..MaxShifts :
          (/\ CompleteShiftRejected(u, i)
           /\ i \in ShiftIds
           /\ ShiftById(i).status # "ACTIVE")
            => /\ last'.result # "ok"
               /\ MayComplete(u, i) => last'.result = "NotActive"
               /\ UNCHANGED <<shifts, jobStatus, jobEmployees>>
     /\ \A p \in Procs, u \in Callers, i \in 1..MaxShifts, en \in Times :
          CompleteShift(p, u, i, en) => ShiftById(i).status = "ACTIVE"]_vars

\* An employee's second completeShift on the shift the first one completed
\* has just been rejected.
C15_CompleteAgainAnswered ==
  /\ last.op = "complete"
  /\ last.result = "NotActive"
  /\ \E s \in shifts :
       /\ s.employeeId = last.user
       /\ s.status = "COMPLETED"
       /\ s.payload # 0

\* C16: a caller without the scheduling-authority role (an EMPLOYEE) changes
\* a Job's status through updateJobStatus only when the caller is in that
\* Job's employee set; for a Job the caller is not assigned to the request
\* fails and the status is unchanged.
C16_StatusOnlyByAssigned ==
  [][\A u \in Callers, j \in Jobs, st \in StatusInputs :
       (/\ UpdateJobStatus(u, j, st)
        /\ Role(u) = "EMPLOYEE"
        /\ u \notin jobEmployees[j])
         => (last'.result # "ok" /\ jobStatus' = jobStatus)]_vars

\* C17: after setJobAvailable(J, removeShifts = true) succeeds J is
\* AVAILABLE, no Shift with jobId J exists and J's employee set is empty, the
\* three changes becoming visible together; Shifts, employee sets and statuses
\* of every other Job are unchanged.
C17_ResetClearsJobOnly ==
  [][/\ \A p \in Procs, u \in Callers, j \in Jobs :
          SetJobAvailable(p, u, j) => UNCHANGED db
     /\ \A p \in Procs :
          StatusCommit(p) =>
            LET j == req[p].job IN
              /\ last'.result = "ok"
              /\ jobStatus'[j] = "AVAILABLE"
              /\ jobEmployees'[j] = {}
              /\ \A s \in shifts' : s.jobId # j
              /\ \A k \in Jobs \ {j} :
                   /\ jobStatus'[k] = jobStatus[k]
                   /\ jobEmployees'[k] = jobEmployees[k]
                   /\ {s \in shifts' : s.jobId = k} = ShiftsOfJob(k)]_vars

\* The token's user exists and, if an EMPLOYEE, is verified.
Admitted(u) == u \in Users /\ (Role(u) = "EMPLOYEE" => Verified(u))

\* The request of caller u is answered with the error of protect (401 for a
\* missing user, 403 for an unverified employee) and nothing is written.
StoppedByProtect(u) ==
  /\ last'.user = u
  /\ last'.result = IF u \in Users THEN "AccountNotVerified" ELSE "UserNotFound"
  /\ UNCHANGED <<db, nextShiftId>>

\* C18: protect lets a request reach its handler only when the token's user
\* exists and, if that user is an EMPLOYEE, is verified; any other caller, an
\* unverified EMPLOYEE in particular, is rejected on every route before any
\* operation runs, so no job or shift state changes: no handler is ever at
\* work for such a caller, and each of the caller's requests is answered by
\* protect with nothing written.
C18_ProtectGuardsEveryRoute ==
  [][/\ \A p \in Procs : req'[p].pc # "idle" => Admitted(req'[p].user)
     /\ \A u \in Callers :
          (~Admitted(u) /\ last'.user = u) =>
            /\ \A j \in Jobs, ids \in AssignSets :
                 AssignEmployees(u, j, ids) => StoppedByProtect(u)
            /\ \A j \in Jobs, st \in StatusInputs :
                 UpdateJobStatus(u, j, st) => StoppedByProtect(u)
            /\ \A j \in Jobs : ApplyRejected(u, j) => StoppedByProtect(u)
            /\ \A e \in Employees, st \in Times, en \in Times :
                 CreateShiftRejected(u, e, st, en) => StoppedByProtect(u)
            /\ \A i \in 1..MaxShifts, data \in UpdateBodies :
                 UpdateShiftRejected(u, i, data) => StoppedByProtect(u)
            /\ \A i \in 1..MaxShifts : DeleteShift(u, i) => StoppedByProtect(u)
            /\ \A i \in 1..MaxShifts :
                 CompleteShiftRejected(u, i) => StoppedByProtect(u)]_vars

\* A request of the unverified employee has just been answered with 403.
C18_UnverifiedEmployeeStopped ==
  /\ last.user \in Employees
  /\ ~Verified(last.user)
  /\ last.result = "AccountNotVerified"

\* The shifts of employee e that share an instant with [st, en):
\* existing.start < en and existing.end > st.
Overlapping(e, st, en) ==
  {s \in shifts : s.employeeId = e /\ s.startTime < en /\ s.endTime > st}

\* A createShift request that passes every check but the overlap check.
WellFormedCreate(u, e, st, en) ==
  Protect(u) /\ RestrictTo(u) /\ Verified(e) /\ st < en

\* C19: createShift with start < end and a verified employee is rejected if
\* and only if some existing non-cancelled Shift of the same employee has
\* existing.start < end and existing.end > start, whatever the relative
\* position of the two intervals.
C19_CreateRejectedIffOverlap ==
  [][\A u \in Callers, e \in Employees, st \in Times, en \in Times :
       WellFormedCreate(u, e, st, en) =>
         LET conflict == \E s \in Overlapping(e, st, en) : s.status # "CANCELLED" IN
           /\ CreateShiftRejected(u, e, st, en) => conflict
           /\ \A p \in Procs, j \in Jobs :
                CreateShift(p, u, e, j, st, en) => ~conflict]_vars

\* C20: a CANCELLED Shift never causes a scheduling conflict: createShift for
\* an employee whose only time-overlapping shifts are CANCELLED is not
\* rejected.
C20_CancelledNeverConflicts ==
  [][\A u \in Callers, e \in Employees, st \in Times, en \in Times :
       (/\ WellFormedCreate(u, e, st, en)
        /\ Overlapping(e, st, en) # {}
        /\ \A s \in Overlapping(e, st, en) : s.status = "CANCELLED")
         => ~CreateShiftRejected(u, e, st, en)]_vars

\* C21: two createShift calls for the same employee with overlapping time
\* windows that run concurrently do not both commit: a request does not store
\* its Shift when a Shift of the employee that overlaps its window, and that
\* its own overlap query would find, has been stored since that query ran.
C21_ConcurrentCreateOneCommits ==
  [][\A p \in Procs :
       CreateShiftWrite(p) =>
         ~\E s \in Overlapping(req[p].employee, req[p].startTime, req[p].endTime) :
            /\ s \in OverlappingShifts(req[p].employee, req[p].startTime, req[p].endTime)
            /\ s.status # "CANCELLED"]_vars

\* C22: applyForJob(J, E) on a Job whose status is not AVAILABLE fails and
\* leaves the Job's status, its employee set and all Shifts unchanged; a call
\* no other request overlaps, on an AVAILABLE Job by a verified employee not in
\* its set, that returns success has changed nothing but J's status (ASSIGNED)
\* and employee set (E added) and leaves exactly one new SCHEDULED Shift for
\* (E, J) whose startTime is J.date.
C22_ApplyAlone ==
  [][/\ \A u \in Callers, j \in Jobs :
          (ApplyRejected(u, j) /\ jobStatus[j] # "AVAILABLE")
            => (last'.result # "ok" /\ UNCHANGED <<db, nextShiftId>>)
     /\ \A p \in Procs, u \in Callers, j \in Jobs :
          ApplyForJob(p, u, j) =>
            /\ jobStatus[j] = "AVAILABLE"
            /\ u \notin jobEmployees[j]
            /\ Role(u) = "EMPLOYEE" => Verified(u)
            /\ UNCHANGED db
     /\ \A p \in Procs :
          (ApplyJobUpdate(p) /\ ~req[p].conc) =>
            /\ jobStatus' = [jobStatus EXCEPT ![req[p].job] = "ASSIGNED"]
            /\ jobEmployees' = [jobEmployees EXCEPT ![req[p].job] = @ \cup {req[p].user}]
            /\ shifts' = shifts
     /\ \A p \in Procs :
          (ApplyShiftCreate(p) /\ ~req[p].conc) =>
            LET j == req[p].job
                u == req[p].user IN
              /\ last'.result = "ok"
              /\ jobStatus' = jobStatus /\ jobStatus[j] = "ASSIGNED"
              /\ jobEmployees' = jobEmployees /\ u \in jobEmployees[j]
              /\ shifts \subseteq shifts'
              /\ Cardinality(shifts' \ shifts) = 1
              /\ \A s \in shifts' \ shifts :
                   /\ s.id \notin ShiftIds
                   /\ s.employeeId = u /\ s.jobId = j
                   /\ s.status = "SCHEDULED" /\ s.startTime = JobDate(j)]_vars

\* The one request received so far, an employee's applyForJob, has returned
\* success: the job is ASSIGNED with the employee in its set and the one shift
\* the call created.
C22_AppliedAlone ==
  /\ last.op = "apply"
  /\ last.result = "ok"
  /\ budget = MaxOps - 1
  /\ AllReturned
  /\ \E j \in Jobs :
       /\ jobStatus[j] = "ASSIGNED"
       /\ jobEmployees[j] = {last.user}
       /\ Role(last.user) = "EMPLOYEE"
       /\ \E s \in shifts : AppliedShift(s, last.user, j) /\ ShiftsOfJob(j) = {s}

\* The non-cancelled shifts of employee u whose window strictly covers the
\* date of job j: start < J.date < end.
CoveringShifts(u, j) ==
  {s \in shifts :
     /\ s.employeeId = u
     /\ s.status # "CANCELLED"
     /\ s.startTime < JobDate(j)
     /\ JobDate(j) < s.endTime}

\* C23: applyForJob runs the shift overlap check: when the applying employee
\* already has a non-cancelled Shift with start < J.date < end, applyForJob(J,
\* E) fails with a scheduling conflict and changes neither the Job nor the
\* Shifts: no such call passes the handler's checks and goes on to its writes.
C23_ApplyRunsOverlapCheck ==
  [][\A p \in Procs, u \in Callers, j \in Jobs :
       ApplyForJob(p, u, j) => CoveringShifts(u, j) = {}]_vars

\* C24: in every reachable state, an employee is in a Job's employee set if
\* and only if a Shift exists for that employee and that Job (assignEmployees
\* creating one Shift per assigned employee, createShift adding the employee to
\* the Job's set); stated for the states in which no request is in flight.
C24_MemberIffShift ==
  AllReturned =>
    \A j \in Jobs, e \in Users :
      e \in jobEmployees[j] <=> \E s \in ShiftsOfJob(j) : s.employeeId = e

\* C25: setJobAvailable(J, removeShifts = false) by the scheduling authority
\* succeeds and sets J.status to AVAILABLE, and whenever it succeeds it leaves
\* every Shift (identity, status, times), J's employee set and every other
\* Job exactly as they were.
C25_ResetKeepsShifts ==
  [][\A u \in Callers, j \in Jobs :
       UpdateJobStatus(u, j, "AVAILABLE") =>
         /\ Role(u) = "EMPLOYER" => last'.result = "ok"
         /\ last'.result = "ok" =>
              /\ jobStatus' = [jobStatus EXCEPT ![j] = "AVAILABLE"]
              /\ shifts' = shifts
              /\ jobEmployees' = jobEmployees]_vars

\* The employer has just set the job under way back to AVAILABLE without
\* removeShifts: its crew and its two ACTIVE shifts are still there.
C25_ResetKeptCrew ==
  /\ last = [op |-> "status", user |-> "boss", result |-> "ok"]
  /\ \E j \in Jobs :
       /\ jobStatus[j] = "AVAILABLE"
       /\ jobEmployees[j] = {"e1", "e2"}
       /\ ShiftsOfJob(j) = {ActiveShift(i, j) : i \in 1..2}

\* C26: a Shift, once created, exists in every later state unless
\* setJobAvailable(removeShifts = true) was executed on its Job: the only step
\* after which a stored Shift is gone is the commit of such a reset of the
\* Shift's Job.
C26_ShiftRemovedOnlyByReset ==
  [][\A s \in shifts :
       s.id \notin {n.id : n \in shifts'} =>
         \E p \in Procs : StatusCommit(p) /\ req[p].job = s.jobId]_vars

\* C27: the number of employees assigned to a Job is not capped at
\* numberOfMovers: an assignEmployees by the scheduling authority that takes
\* the Job's employee set beyond numberOfMovers succeeds, and all its employee
\* ids are in the set afterwards.
C27_AssignNotCapped ==
  [][\A u \in Callers, j \in Jobs, ids \in AssignSets :
       (/\ AssignEmployees(u, j, ids)
        /\ Protect(u) /\ RestrictTo(u)
        /\ Cardinality(jobEmployees[j] \cup ids) > NumberOfMovers(j))
         => /\ last'.result = "ok"
            /\ jobEmployees'[j] = jobEmployees[j] \cup ids]_vars

\* An assignEmployees has just succeeded and the job has more employees than
\* its numberOfMovers.
C27_MoreMembersThanMovers ==
  /\ last.op = "assign"
  /\ last.result = "ok"
  /\ \E j \in Jobs : Cardinality(jobEmployees[j]) > NumberOfMovers(j)

\* C28: of two completeShift calls on the same ACTIVE Shift that run
\* concurrently exactly one succeeds and writes its completion payload: the
\* call whose transaction finds the Shift already COMPLETED by the other fails
\* and leaves the stored payload as it is.
C28_ConcurrentCompleteOneWrites ==
  [][\A p \in Procs :
       (/\ CompleteShiftTx(p)
        /\ req[p].shift \in ShiftIds
        /\ ShiftById(req[p].shift).status = "COMPLETED"
        /\ ShiftById(req[p].shift).payload # 0)
         => (last'.result # "ok" /\ shifts' = shifts)]_vars

\* C29: the completion cascade moves a Job to COMPLETED only along a legal
\* edge: completeShift sets Job.status to COMPLETED only when the Job is
\* IN_PROGRESS, never directly from AVAILABLE, ASSIGNED or CANCELLED.
C29_CascadeOnlyFromInProgress ==
  [][\A p \in Procs :
       (/\ CompleteShiftTx(p)
        /\ jobStatus[req[p].job] # "COMPLETED"
        /\ jobStatus'[req[p].job] = "COMPLETED")
         => jobStatus[req[p].job] = "IN_PROGRESS"]_vars

\* C30: a Job that has at least one CANCELLED Shift is never moved to
\* COMPLETED by completeShift, however many of its other shifts are completed:
\* no completeShift leaves a Job it has just made COMPLETED with a CANCELLED
\* Shift.
C30_CancelledShiftBlocksCascade ==
  [][\A p \in Procs :
       (/\ CompleteShiftTx(p)
        /\ jobStatus[req[p].job] # "COMPLETED"
        /\ jobStatus'[req[p].job] = "COMPLETED")
         => \A s \in shifts' : s.jobId = req[p].job => s.status # "CANCELLED"]_vars
====
